---- MODULE Spec2Model ----
(***************************************************************************)
(* Link verification pipeline of price-pilot-link-verify:                  *)
(*   link_verify.py      get_proxy_password / get_secret / fetch_html /    *)
(*                       extract_text / find_product_info                  *)
(*   link_verify_api.py  parse_price / compare_prices / verify_single_link *)
(*                                                                         *)
(* Text values (str | None) are sequences of string pieces: a price string *)
(* is the sequence of its characters, a message the sequence of the parts  *)
(* an f-string concatenates.  None is the one-piece sequence <<"None">>,   *)
(* which no text of the program equals; "" is the empty sequence.          *)
(***************************************************************************)
EXTENDS Integers, Sequences, FiniteSets, TLC

VARIABLES
    proxy_password_cache, \* link_verify._proxy_password_cache
    secrets_cache,        \* link_verify._secrets_cache: the names cached, with their values
    mode,                 \* "idle" | "direct" (fetch_html called by itself) | "verify" | "helper"
                          \* | "endpoint" (in an endpoint, outside verify_single_link)
    fpc,                  \* position in fetch_html: "none" | "proxies" | "loop" | "returned" | "raised"
    url, timeout, max_retries,   \* fetch_html's arguments
    attempt,              \* the for loop's variable (0 before the first iteration)
    last_error,           \* fetch_html's last_error
    log,                  \* what requests.get did on each attempt so far (its outcomes)
    sleeps,               \* the arguments of the time.sleep calls so far
    fret,                 \* fetch_html's return value <<html, error>>, or the exception it raised
    proxies,              \* fetch_html's proxies: the password in the proxy url
    headers,              \* fetch_html's headers: their User-Agent
    sent,                 \* the User-Agent requests.get was given on each attempt so far
    vpc,                  \* position in verify_single_link
    product_title, amazon_price,  \* verify_single_link's arguments (with url)
    html_content, text_content, extract_error, product_info, llm_error,
    calls,                \* the stages verify_single_link has called, in order
    result,               \* verify_single_link's return value
    pcall,                \* a helper called by itself: its name, arguments and return value
    http,                 \* the request being served: endpoint, body, response, and how often
                          \* the Secret Manager was read while serving it
    batch                 \* verify_batch's tasks, their results, the semaphore's value

cacheVars == <<proxy_password_cache, secrets_cache>>
fetchVars == <<fpc, url, timeout, max_retries, attempt, last_error, log, sleeps, fret, proxies,
               headers, sent>>
verifyVars == <<vpc, product_title, amazon_price, html_content, text_content,
                extract_error, product_info, llm_error, calls, result>>
apiVars == <<http, batch>>
vars == <<cacheVars, mode, fetchVars, verifyVars, pcall, apiVars>>

None == <<"None">>
Str(s) == <<s>>

\* Python truthiness of a str | None value.
Truthy(s) == s # None /\ s # <<>>

----------------------------------------------------------------------------
(* Bounds and inputs *)

MaxRetriesBound == 3
DEFAULT_TIMEOUT == 15
DEFAULT_MAX_RETRIES == 3
SSL_SLEEP == 1
TIMEOUT_SLEEP == 1

Urls == {"https://shop.example/p", "shop.example/p", ""}
HasScheme(u) == u = "https://shop.example/p"
Timeouts == {DEFAULT_TIMEOUT, 30}
RetryCounts == 0..MaxRetriesBound
StoreValues == {"pw-A", "pw-B"}

----------------------------------------------------------------------------
(* What one requests.get call can do *)

\* Direct base classes in requests.exceptions (and the builtins).
Bases(cls) ==
    CASE cls = "ProxyError"       -> {"ConnectionError"}
      [] cls = "SSLError"         -> {"ConnectionError"}
      [] cls = "ConnectTimeout"   -> {"ConnectionError", "Timeout"}
      [] cls = "ReadTimeout"      -> {"Timeout"}
      [] cls = "ConnectionError"  -> {"RequestException"}
      [] cls = "Timeout"          -> {"RequestException"}
      [] cls = "HTTPError"        -> {"RequestException"}
      [] cls = "MissingSchema"    -> {"RequestException", "ValueError"}
      [] cls = "TooManyRedirects" -> {"RequestException"}
      [] cls = "UnicodeError"     -> {"ValueError"}
      [] cls = "PermissionDenied" -> {"Exception"}
      [] cls = "KeyError"         -> {"Exception"}
      [] cls = "RequestException" -> {"Exception"}
      [] cls = "ValueError"       -> {"Exception"}
      [] OTHER                    -> {}

RECURSIVE IsInstance(_, _)
IsInstance(cls, of) ==
    \/ cls = of
    \/ \E b \in Bases(cls) : IsInstance(b, of)

\* Variants with one slip: ConnectionError ahead of SSLError; no MissingSchema clause.
ExceptClausesSwapped ==
    <<"ProxyError", "ConnectionError", "SSLError", "MissingSchema",
      "Timeout", "HTTPError", "RequestException">>
ExceptClausesNoSchema ==
    <<"ProxyError", "SSLError", "ConnectionError",
      "Timeout", "HTTPError", "RequestException">>

\* The except clauses of fetch_html's try, in source order.
ExceptClauses ==
    <<"ProxyError", "SSLError", "MissingSchema", "ConnectionError",
      "Timeout", "HTTPError", "RequestException">>

\* The clause of a try that handles an exception of class cls: the first that
\* matches.
FirstMatch(clauses, cls) ==
    LET hits == {i \in 1..Len(clauses) : IsInstance(cls, clauses[i])}
    IN  IF hits = {} THEN "uncaught"
        ELSE clauses[CHOOSE i \in hits : \A j \in hits : i <= j]

Handler(cls) == FirstMatch(ExceptClauses, cls)

\* str(e) of the exception raised on attempt n, or by the credential store.
ExcText(cls, n) == cls \o "#" \o ToString(n)

Statuses == {200, 403, 404, 429, 503}
HtmlBodies == {"", "<html>long</html>", "<html>short</html>",
               "<html><script/></html>", "<html>broken"}
TransportErrors == {"ProxyError", "SSLError", "ConnectionError", "ConnectTimeout",
                    "ReadTimeout", "TooManyRedirects", "UnicodeError"}

\* The outcomes of requests.get(url, ...): a url without a scheme is refused
\* before anything is sent.
\* An outcome is a response (status, body, content type) or an exception (exc).
Outcomes(u) ==
    IF ~HasScheme(u)
    THEN {[status |-> 0, exc |-> "MissingSchema", body |-> "", html_type |-> FALSE]}
    ELSE [status : {200}, exc : {""}, body : HtmlBodies, html_type : {TRUE}]
         \cup [status : {200}, exc : {""}, body : {"<html>long</html>"}, html_type : {FALSE}]
         \cup [status : Statuses \ {200}, exc : {""}, body : {""}, html_type : {FALSE}]
         \cup [status : {0}, exc : TransportErrors, body : {""}, html_type : {FALSE}]

\* response.text / an html argument as a str value.
Text(body) == IF body = "" THEN <<>> ELSE <<body>>

----------------------------------------------------------------------------
(* Credentials: get_secret, get_proxy_password *)

\* What the Secret Manager answers when it is asked: a value, or a failure.
StoreReplies == [ok : {TRUE}, value : StoreValues] \cup [ok : {FALSE}, value : {""}]

\* Variant: the cache is not looked at
get_secretUncached(name, cache, reply) ==
    IF reply.ok
    THEN [ok |-> TRUE, value |-> reply.value,
          cache |-> [n \in DOMAIN cache \cup {name} |-> IF n = name THEN reply.value ELSE cache[n]],
          read |-> TRUE]
    ELSE [ok |-> FALSE, value |-> "", cache |-> cache, read |-> TRUE]

\* Variant: a failed read is cached as an empty value
get_secretCachesFailure(name, cache, reply) ==
    IF name \in DOMAIN cache
    THEN [ok |-> cache[name] # "", value |-> cache[name], cache |-> cache, read |-> FALSE]
    ELSE IF reply.ok
    THEN [ok |-> TRUE, value |-> reply.value, cache |-> cache @@ (name :> reply.value),
          read |-> TRUE]
    ELSE [ok |-> FALSE, value |-> "", cache |-> cache @@ (name :> ""), read |-> TRUE]
\* get_secret(name) on the cache `cache`, the store answering `reply` if asked;
\* read tells whether it was asked.
get_secret(name, cache, reply) ==
    IF name \in DOMAIN cache
    THEN [ok |-> TRUE, value |-> cache[name], cache |-> cache, read |-> FALSE]
    ELSE IF reply.ok
    THEN [ok |-> TRUE, value |-> reply.value, cache |-> cache @@ (name :> reply.value),
          read |-> TRUE]
    ELSE [ok |-> FALSE, value |-> "", cache |-> cache, read |-> TRUE]

\* Variant: neither cache is looked at
get_proxy_passwordUncached(pw, cache, reply) ==
    LET s == get_secretUncached("PROXY_PASSWORD", cache, reply)
    IN  [ok |-> s.ok, pw |-> IF s.ok THEN s.value ELSE pw, cache |-> s.cache, read |-> s.read]
\* get_proxy_password(): the password cache first, then get_secret.
get_proxy_password(pw, cache, reply) ==
    IF pw # "None"
    THEN [ok |-> TRUE, pw |-> pw, cache |-> cache, read |-> FALSE]
    ELSE LET s == get_secret("PROXY_PASSWORD", cache, reply)
         IN  [ok |-> s.ok, pw |-> IF s.ok THEN s.value ELSE pw, cache |-> s.cache,
              read |-> s.read]

----------------------------------------------------------------------------
(* fetch_html *)

\* Variants of the definitions below, each with one slip the code could have.
SuccessReturnKeepsError(o, prev) == <<Text(o.body), prev>>
SuccessReturnHtmlOnly(o, prev) ==
    IF o.html_type THEN <<Text(o.body), None>> ELSE <<None, Str("Unexpected content type")>>
RecordFirst(prev, msg) == IF prev = None THEN msg ELSE prev
BlockedSleepZeroBased(n) == 2 ^ (n - 1)

BlockedStatuses == {403, 429, 503}

BlockedMessage(status) ==
    CASE status = 403 -> Str("HTTP 403 Forbidden - Site may be blocking requests")
      [] status = 429 -> Str("HTTP 429 Too Many Requests - Rate limited")
      [] status = 503 -> Str("HTTP 503 Service Unavailable - Site may be down")

\* response.raise_for_status(): an HTTPError for a 4xx or 5xx status.
RaisesForStatus(status) == status >= 400 /\ status < 600

\* The exception an attempt ends with, "" when it ends with a usable response.
Raised(o) ==
    IF o.exc = ""
    THEN IF o.status \notin BlockedStatuses /\ RaisesForStatus(o.status) THEN "HTTPError" ELSE ""
    ELSE o.exc

\* last_error as the except clause h sets it, for an exception with text `text`.
ClauseMessage(h, text, t) ==
    CASE h = "ProxyError"       -> <<"Proxy connection failed: ", text>>
      [] h = "SSLError"         -> <<"SSL/TLS error: ", text>>
      [] h = "MissingSchema"    -> Str("Invalid URL format - missing http:// or https://")
      [] h = "ConnectionError"  -> <<"Connection failed: ", text>>
      [] h = "Timeout"          -> <<"Request timed out after ", ToString(t), "s">>
      [] h = "HTTPError"        -> <<"HTTP error: ", text>>
      [] h = "RequestException" -> <<"Request failed: ", text>>

\* Variant: a zero-based exponent
ClauseSleepZeroBased(h, n) ==
    CASE h = "SSLError" -> SSL_SLEEP
      [] h = "Timeout"  -> TIMEOUT_SLEEP
      [] OTHER          -> 2 ^ (n - 1)

\* The seconds the except clause h sleeps on attempt n when attempts remain.
ClauseSleep(h, n) ==
    CASE h = "SSLError" -> SSL_SLEEP
      [] h = "Timeout"  -> TIMEOUT_SLEEP
      [] OTHER          -> 2 ^ n

\* The seconds slept after a 403, 429 or 503 on attempt n when attempts remain.
BlockedSleep(n) == 2 ^ n

\* return response.text, None
SuccessReturn(o, prev) == <<Text(o.body), None>>

\* last_error = msg
Record(prev, msg) == msg

\* return None, last_error after the loop
ExhaustedReturn(last) == <<None, last>>

\* Variant: the sleep taken on the last attempt too
AttemptsRemainInclusive(n, m) == n <= m
\* `if attempt < max_retries`
AttemptsRemain(n, m) == n < m

\* One iteration of the for loop, attempt n of m, requests.get doing o:
\* what it leaves in last_error, whether it sleeps, and how it ends
\* ("continue" | "return" | "raise" | "fall": off the end of the except clause).
Iteration(o, n, m, t, prev) ==
    LET exc == Raised(o)
        h   == Handler(exc)
    IN  IF o.exc = "" /\ o.status \in BlockedStatuses
        THEN [last_error |-> Record(prev, BlockedMessage(o.status)),
              sleep |-> IF AttemptsRemain(n, m) THEN <<BlockedSleep(n)>> ELSE <<>>,
              end |-> IF AttemptsRemain(n, m) THEN "continue" ELSE "return",
              ret |-> <<None, Record(prev, BlockedMessage(o.status))>>]
        ELSE IF exc = ""
        THEN [last_error |-> prev, sleep |-> <<>>, end |-> "return",
              ret |-> SuccessReturn(o, prev)]
        ELSE IF h = "uncaught"
        THEN [last_error |-> prev, sleep |-> <<>>, end |-> "raise",
              ret |-> <<Str(exc), Str(ExcText(exc, n))>>]
        ELSE IF h = "MissingSchema"
        THEN [last_error |-> Record(prev, ClauseMessage(h, ExcText(exc, n), t)),
              sleep |-> <<>>, end |-> "return",
              ret |-> <<None, Record(prev, ClauseMessage(h, ExcText(exc, n), t))>>]
        ELSE [last_error |-> Record(prev, ClauseMessage(h, ExcText(exc, n), t)),
              sleep |-> IF AttemptsRemain(n, m) THEN <<ClauseSleep(h, n)>> ELSE <<>>,
              end |-> IF AttemptsRemain(n, m) THEN "continue" ELSE "fall",
              ret |-> <<None, None>>]

NoProxies == "None"
NoHeaders == "None"

\* The pool of user agents, each named by its browser.
USER_AGENTS ==
    <<"Chrome/119 Windows", "Safari/16.6 Macintosh", "Chrome/119 Linux", "Edg/120 Windows",
      "Firefox/120 Windows">>

\* Variant: requests.get is not given the headers
RequestHeadersDefault(h) == "python-requests"
\* requests.get(url, headers=headers, ...)
RequestHeaders(h) == h

NoFrame ==
    /\ fpc = "none" /\ url = "" /\ timeout = 0 /\ max_retries = 0 /\ attempt = 0
    /\ last_error = None /\ log = <<>> /\ sleeps = <<>> /\ fret = <<None, None>>
    /\ proxies = NoProxies /\ headers = NoHeaders /\ sent = <<>>

\* Entering fetch_html(u, t, m).
EnterFetch(u, t, m) ==
    /\ fpc' = "proxies"
    /\ url' = u /\ timeout' = t /\ max_retries' = m
    /\ attempt' = 0 /\ last_error' = None /\ log' = <<>> /\ sleeps' = <<>>
    /\ fret' = <<None, None>>
    /\ proxies' = NoProxies /\ headers' = NoHeaders /\ sent' = <<>>

\* Leaving it: the frame is gone.
LeaveFetch ==
    /\ fpc' = "none" /\ url' = "" /\ timeout' = 0 /\ max_retries' = 0 /\ attempt' = 0
    /\ last_error' = None /\ log' = <<>> /\ sleeps' = <<>> /\ fret' = <<None, None>>
    /\ proxies' = NoProxies /\ headers' = NoHeaders /\ sent' = <<>>

\* proxies = get_proxies(), user_agent = get_random_user_agent(), headers ...
\* last_error = None
FetchGetProxies ==
    /\ fpc = "proxies"
    /\ \E reply \in StoreReplies, i \in 1..Len(USER_AGENTS) :
         LET p == get_proxy_password(proxy_password_cache, secrets_cache, reply)
         IN  /\ proxy_password_cache' = p.pw
             /\ headers' = IF p.ok THEN USER_AGENTS[i] ELSE NoHeaders
             /\ secrets_cache' = p.cache
             /\ proxies' = IF p.ok THEN p.pw ELSE NoProxies
             /\ http' = [http EXCEPT !.reads = IF http.endpoint # "none" /\ p.read
                                                THEN @ + 1 ELSE @]
             /\ IF p.ok
                THEN /\ fpc' = "loop"
                     /\ fret' = fret
                ELSE /\ fpc' = "raised"
                     /\ fret' = <<Str("PermissionDenied"), Str(ExcText("PermissionDenied", 0))>>
    /\ UNCHANGED <<batch, pcall, mode, url, timeout, max_retries, attempt, last_error, log, sleeps,
                   sent, verifyVars>>

\* One attempt: requests.get, the classification of what it did, the sleep.
FetchAttempt ==
    /\ fpc = "loop"
    /\ attempt < max_retries
    /\ \E o \in Outcomes(url) :
         LET it == Iteration(o, attempt + 1, max_retries, timeout, last_error)
         IN  /\ attempt' = attempt + 1
             /\ log' = Append(log, o)
             /\ sent' = Append(sent, RequestHeaders(headers))
             /\ last_error' = it.last_error
             /\ sleeps' = sleeps \o it.sleep
             /\ fpc' = CASE it.end = "return" -> "returned"
                         [] it.end = "raise"  -> "raised"
                         [] OTHER             -> "loop"
             /\ fret' = IF it.end \in {"return", "raise"} THEN it.ret ELSE fret
    /\ UNCHANGED <<apiVars, pcall, cacheVars, mode, url, timeout, max_retries, proxies, headers,
                   verifyVars>>

\* The loop is over: return None, last_error
FetchExhausted ==
    /\ fpc = "loop"
    /\ attempt >= max_retries
    /\ fpc' = "returned"
    /\ fret' = ExhaustedReturn(last_error)
    /\ UNCHANGED <<apiVars, pcall, cacheVars, mode, url, timeout, max_retries, attempt, last_error, log,
                   sleeps, proxies, headers, sent, verifyVars>>

\* A caller other than verify_single_link calls fetch_html(u, t, m).
CallFetch ==
    /\ mode = "idle"
    /\ \E u \in Urls, t \in Timeouts, m \in RetryCounts : EnterFetch(u, t, m)
    /\ mode' = "direct"
    /\ UNCHANGED <<apiVars, pcall, cacheVars, verifyVars>>

\* ... and gets its result, or its exception.
FetchDone ==
    /\ mode = "direct"
    /\ fpc \in {"returned", "raised"}
    /\ LeaveFetch
    /\ mode' = "idle"
    /\ UNCHANGED <<apiVars, pcall, cacheVars, verifyVars>>

----------------------------------------------------------------------------
(* Text helpers: str methods on sequences of characters *)

UpperCase == <<"A","B","C","D","E","F","G","H","I","J","K","L","M",
               "N","O","P","Q","R","S","T","U","V","W","X","Y","Z">>
LowerCase == <<"a","b","c","d","e","f","g","h","i","j","k","l","m",
               "n","o","p","q","r","s","t","u","v","w","x","y","z">>
DigitChars == <<"0","1","2","3","4","5","6","7","8","9">>

IsDigit(c) == \E i \in 1..10 : DigitChars[i] = c
DigitValue(c) == (CHOOSE i \in 1..10 : DigitChars[i] = c) - 1
IsSpace(c) == c \in {" ", "\t"}

\* str.lower() and str.upper()
Lower(s) ==
    [i \in 1..Len(s) |->
        IF \E j \in 1..26 : UpperCase[j] = s[i]
        THEN LowerCase[CHOOSE j \in 1..26 : UpperCase[j] = s[i]] ELSE s[i]]
Upper(s) ==
    [i \in 1..Len(s) |->
        IF \E j \in 1..26 : LowerCase[j] = s[i]
        THEN UpperCase[CHOOSE j \in 1..26 : LowerCase[j] = s[i]] ELSE s[i]]

\* str.strip()
Strip(s) ==
    LET keep == {i \in 1..Len(s) : ~IsSpace(s[i])}
    IN  IF keep = {} THEN <<>>
        ELSE LET lo == CHOOSE i \in keep : \A j \in keep : i <= j
                 hi == CHOOSE i \in keep : \A j \in keep : j <= i
             IN  SubSeq(s, lo, hi)

\* str.replace(c, '') for every c of cs
Remove(s, cs) == SelectSeq(s, LAMBDA c : c \notin cs)

\* sub in s
Contains(s, sub) ==
    \E i \in 1..(Len(s) - Len(sub) + 1) : SubSeq(s, i, i + Len(sub) - 1) = sub

----------------------------------------------------------------------------
(* parse_price, compare_prices *)

\* A parsed price is the number m / 10^k; NoPrice is parse_price's None.
NoPrice == [some |-> FALSE, m |-> 0, k |-> 0]

Sentinels ==
    { <<"n","o","t"," ","l","i","s","t","e","d">>, <<"n","/","a">>, <<"n","a">>,
      <<"n","o","t"," ","a","v","a","i","l","a","b","l","e">>,
      <<"n","o","t"," ","s","p","e","c","i","f","i","e","d">> }

\* Variant: the commas are left in
CurrencyOnly == {"£", "$", "€"}
CurrencyAndCommas == {"£", "$", "€", ","}

\* int() of a run of digits
RECURSIVE DigitsValueTo(_, _)
DigitsValueTo(ds, i) ==
    IF i = 0 THEN 0 ELSE 10 * DigitsValueTo(ds, i - 1) + DigitValue(ds[i])
DigitsValue(ds) == CHOOSE v \in {DigitsValueTo(d, Len(d)) : d \in {ds}} : TRUE

\* The end of the maximal run of digits of s that starts at i (i - 1 if none).
RunEnd(s, i) ==
    LET stops == {j \in i..Len(s) : ~IsDigit(s[j])}
    IN  IF stops = {} THEN Len(s)
        ELSE (CHOOSE j \in stops : \A l \in stops : j <= l) - 1

\* float(re.search(r'\d+\.?\d*', cleaned).group()), None without a match
FirstNumber(cleaned) ==
    LET starts == {i \in 1..Len(cleaned) : IsDigit(cleaned[i])}
    IN  IF starts = {} THEN NoPrice
        ELSE LET a == CHOOSE i \in starts : \A j \in starts : i <= j
                 b == RunEnd(cleaned, a)
                 dot == b < Len(cleaned) /\ cleaned[b + 1] = "."
                 c == IF dot THEN RunEnd(cleaned, b + 2) ELSE b
                 frac == IF dot THEN SubSeq(cleaned, b + 2, c) ELSE <<>>
             IN  [some |-> TRUE,
                  m |-> DigitsValue(SubSeq(cleaned, a, b) \o frac),
                  k |-> Len(frac)]

\* A value that is not a str: the float 10.99 (truthy, like every non-zero float).
NotStr == <<"float 10.99">>
IsStr(v) == v # None /\ v # NotStr

parse_price(price_str) ==
    IF ~Truthy(price_str) \/ ~IsStr(price_str) THEN NoPrice
    ELSE LET price(cleaned) == IF Lower(cleaned) \in Sentinels THEN NoPrice
                                ELSE FirstNumber(cleaned)
         IN  CHOOSE r \in {price(cleaned) :
                             cleaned \in {Remove(Strip(price_str), CurrencyAndCommas)}} : TRUE

\* x < y and x - y for parsed prices, on the larger of the two scales
Scale(x, y) == IF x.k >= y.k THEN x.k ELSE y.k
\* Variant: `<=` for `<`
LessOrEqual(x, y) == x.m * 10 ^ (Scale(x, y) - x.k) <= y.m * 10 ^ (Scale(x, y) - y.k)
Less(x, y) == x.m * 10 ^ (Scale(x, y) - x.k) < y.m * 10 ^ (Scale(x, y) - y.k)
Minus(x, y) ==
    [some |-> TRUE, k |-> Scale(x, y),
     m |-> x.m * 10 ^ (Scale(x, y) - x.k) - y.m * 10 ^ (Scale(x, y) - y.k)]

\* The decimal digits of n >= 0
Digits(n) ==
    LET width == CHOOSE w \in 1..9 : n < 10 ^ w /\ (w = 1 \/ n >= 10 ^ (w - 1))
    IN  [i \in 1..width |-> DigitChars[((n \div 10 ^ (width - i)) % 10) + 1]]

\* Variants: `.1f` for `.2f`; the symbol left out
FormatSavingsOneDecimal(d) ==
    LET tenths == (d.m * 10 ^ (2 - d.k)) \div 10
    IN  <<"£">> \o Digits(tenths \div 10) \o <<".", DigitChars[(tenths % 10) + 1]>>
FormatSavingsNoSymbol(d) ==
    LET cents == d.m * 10 ^ (2 - d.k)
    IN  Digits(cents \div 100) \o <<".">>
        \o <<DigitChars[((cents \div 10) % 10) + 1], DigitChars[(cents % 10) + 1]>>

\* f"£{savings:.2f}" for a difference d of prices with at most two decimals each
\* (the float difference then rounds to the exact one)
FormatSavings(d) ==
    LET cents == d.m * 10 ^ (2 - d.k)
    IN  <<"£">> \o Digits(cents \div 100) \o <<".">>
        \o <<DigitChars[((cents \div 10) % 10) + 1], DigitChars[(cents % 10) + 1]>>

\* Variant: only the reference price is tested
ComparableRefOnly(scraped_price, amazon_price_) == amazon_price_.some

\* `if amazon_price is None or scraped_price is None: return result`, negated
Comparable(scraped_price, amazon_price_) == amazon_price_.some /\ scraped_price.some

\* (the two prices are parsed once each, then compared)
compare_prices(scraped_price_str, amazon_price_str) ==
    LET result_(scraped_price, amazon_price_) ==
            IF ~Comparable(scraped_price, amazon_price_)
            THEN [priceComparison |-> "unable_to_compare", savings |-> None]
            ELSE IF Less(scraped_price, amazon_price_)
            THEN [priceComparison |-> "lower",
                  savings |-> FormatSavings(Minus(amazon_price_, scraped_price))]
            ELSE IF Less(amazon_price_, scraped_price)
            THEN [priceComparison |-> "higher", savings |-> None]
            ELSE [priceComparison |-> "same", savings |-> None]
    IN  CHOOSE r \in {result_(scraped_price, amazon_price_) :
                        scraped_price \in {parse_price(scraped_price_str)},
                        amazon_price_ \in {IF Truthy(amazon_price_str)
                                           THEN parse_price(amazon_price_str)
                                           ELSE NoPrice}} : TRUE

----------------------------------------------------------------------------
(* extract_text *)

MIN_TEXT_LENGTH == 100

\* A page text is known by its length; NoText is extract_text's None.
NoText == -1

\* BeautifulSoup(html).get_text() after the scripts and styles are dropped and
\* the whitespace is normalised: the length of the text, or -2 when the parser
\* throws.
SoupText(html) ==
    CASE html = Str("<html>long</html>")      -> 100
      [] html = Str("<html>short</html>")     -> 99
      [] html = Str("<html><script/></html>") -> 0
      [] OTHER                                -> -2

\* Variant: `<=` for `<`
TooShortInclusive(text) == text <= MIN_TEXT_LENGTH

\* `if not text or len(text) < 100`
TooShort(text) == text < MIN_TEXT_LENGTH

extract_text(html) ==
    IF ~Truthy(html)
    THEN [text |-> NoText, error |-> Str("No HTML content provided")]
    ELSE IF SoupText(html) = -2
    THEN [text |-> NoText, error |-> <<"Failed to parse HTML: ", ExcText("ParserError", 0)>>]
    ELSE IF TooShort(SoupText(html))
    THEN [text |-> SoupText(html),
          error |-> Str("Page content appears to be empty or very short")]
    ELSE [text |-> SoupText(html), error |-> None]

----------------------------------------------------------------------------
(* find_product_info *)

\* dict.get(key, default)
Get(d, key, default) == IF key \in DOMAIN d THEN d[key] ELSE default

NoInfo == [k \in {} |-> <<>>]

\* Variant: split at the last colon
LastColon(line) == CHOOSE i \in 1..Len(line) : line[i] = ":" /\ \A j \in (i + 1)..Len(line) : line[j] # ":"

\* The part of a line before its first colon, and the part after it.
FirstColon(line) == CHOOSE i \in 1..Len(line) : line[i] = ":" /\ \A j \in 1..(i - 1) : line[j] # ":"
KeyOf(line) == Strip(SubSeq(line, 1, FirstColon(line) - 1))
ValueOf(line) == Strip(SubSeq(line, FirstColon(line) + 1, Len(line)))

\* The dictionary the for loop over content.split('\n') builds: a later line
\* with the same key replaces an earlier one.
ParseLines(lines) ==
    LET with == {i \in 1..Len(lines) : \E j \in 1..Len(lines[i]) : lines[i][j] = ":"}
    IN  [k \in {KeyOf(lines[i]) : i \in with} |->
            ValueOf(lines[CHOOSE i \in with :
                        /\ KeyOf(lines[i]) = k
                        /\ \A j \in with : KeyOf(lines[j]) = k => j <= i])]

NOT_FOUND == <<"N","O","T","_","F","O","U","N","D">>

\* Variant: the token is looked for in the answer as written
MentionsNotFoundExact(content) == \E i \in 1..Len(content) : Contains(content[i], NOT_FOUND)
\* "NOT_FOUND" in content.upper()
MentionsNotFound(content) == \E i \in 1..Len(content) : Contains(Upper(content[i]), NOT_FOUND)

\* The except clauses of find_product_info's try, in source order.
LlmExceptClauses == <<"Timeout", "RequestException", "Exception">>

LlmClauseMessage(h, text) ==
    CASE h = "Timeout"          -> Str("LLM API request timed out after 60s")
      [] h = "RequestException" -> <<"LLM API request failed: ", text>>
      [] h = "Exception"        -> <<"Error processing LLM response: ", text>>

\* find_product_info on what requests.post did (reply); the page text and the
\* query only go into the prompt.  api_key "" or None sends it to get_secret.
find_product_info(page_content, product_query, api_key, cache, store_reply, reply) ==
    LET key == IF api_key \in {"", "None"}
               THEN get_secret("OPENROUTER_API_KEY", cache, store_reply)
               ELSE [ok |-> TRUE, value |-> api_key, cache |-> cache, read |-> FALSE]
        fail(msg) == [info |-> NoInfo, error |-> msg, cache |-> key.cache, read |-> key.read]
        exc == IF reply.exc # "" THEN reply.exc
               ELSE IF reply.status \notin {401, 429} /\ RaisesForStatus(reply.status)
               THEN "HTTPError"
               ELSE IF reply.status \notin {401, 429} /\ reply.shape = "no_message"
               THEN "KeyError"
               ELSE ""
        content == reply.content
        stripped == \A i \in 1..Len(content) : Strip(content[i]) = <<>>
        product_info_ == ParseLines(content)
    IN  IF ~key.ok
        THEN fail(<<"Failed to retrieve API key from Secret Manager: ",
                    ExcText("PermissionDenied", 0)>>)
        ELSE IF exc # ""
        THEN fail(LlmClauseMessage(FirstMatch(LlmExceptClauses, exc), ExcText(exc, 0)))
        ELSE IF reply.status = 401
        THEN fail(Str("LLM API authentication failed - invalid API key"))
        ELSE IF reply.status = 429
        THEN fail(Str("LLM API rate limit exceeded"))
        ELSE IF reply.shape = "no_choices"
        THEN fail(Str("LLM returned unexpected response format"))
        ELSE IF stripped
        THEN fail(Str("LLM returned empty response"))
        ELSE IF MentionsNotFound(content)
        THEN fail(Str("Product not found on page"))
        ELSE IF DOMAIN product_info_ # {}
        THEN [info |-> product_info_, error |-> None, cache |-> key.cache, read |-> key.read]
        ELSE fail(Str("Failed to parse product info from LLM response"))

----------------------------------------------------------------------------
(* verify_single_link *)

K_title == <<"t","i","t","l","e">>
K_brand == <<"b","r","a","n","d">>
K_price == <<"p","r","i","c","e">>
K_description == <<"d","e","s","c","r","i","p","t","i","o","n">>
K_availability == <<"a","v","a","i","l","a","b","i","l","i","t","y">>
NotListed == <<"N","o","t"," ","l","i","s","t","e","d">>
NotSpecified == <<"N","o","t"," ","s","p","e","c","i","f","i","e","d">>
NA == <<"N","/","A">>

\* The key the service loaded at start-up.
OPENROUTER_API_KEY == "sk-key"

\* Inputs of the model.
Titles == {<<>>, <<"D","e","l","l">>}
RefPrices == {None, <<>>, <<"£","1","5",".","9","9">>, NA}
ScrapedPrices == {<<"£","1","0",".","9","9">>, <<"£","1","5",".","9","9">>,
                  <<"£","2","0",".","9","9">>, NotListed}
Line(key, value) == key \o <<":", " ">> \o value
OracleContents ==
    {<<>>, <<NOT_FOUND>>, <<<<"s","o","r","r","y">>>>,
     <<Line(K_title, <<"X","P","S">>), Line(K_brand, <<"D","e","l","l">>)>>}
    \cup {<<Line(K_title, <<"X","P","S">>), Line(K_price, p)>> : p \in ScrapedPrices}
OracleReplies ==
    [exc : {"ReadTimeout", "ConnectionError"}, status : {0}, shape : {"ok"}, content : {<<>>}]
    \cup [exc : {""}, status : {401, 429, 500}, shape : {"ok"}, content : {<<>>}]
    \cup [exc : {""}, status : {200}, shape : {"no_choices", "no_message"}, content : {<<>>}]
    \cup [exc : {""}, status : {200}, shape : {"ok"}, content : OracleContents]

\* A result with every field absent; the returns below fill in their keys.
NoResult ==
    [valid |-> FALSE, url |-> "None", productTitle |-> None, error |-> None,
     errorType |-> "None", message |-> None, price |-> None, brand |-> None,
     description |-> None, availability |-> None, confidence |-> "None",
     amazonPrice |-> None, priceComparison |-> "None", savings |-> None]

\* Variants with one slip: `is None` for `not`; a narrower except; `same` accepted.
TextPresentNotNone(text) == text >= 0
VerifyExceptClausesNarrow == <<"RequestException">>
IsValidNotHigher(amazon, verdict) ==
    IF Truthy(amazon) /\ verdict # "unable_to_compare" THEN verdict # "higher" ELSE TRUE

\* More variants: `is None` for `not html_content`; the warning taken for a
\* failure; the `if not product_info` return left out.
HtmlPresentNotNone(html) == html # None
TextPresentNoWarning(text) == text >= MIN_TEXT_LENGTH
ProductPresentAlways(info) == TRUE

\* The tests `if not html_content`, `if not text_content`, `if not product_info`
HtmlPresent(html) == Truthy(html)
TextPresent(text) == text > 0
ProductPresent(info) == DOMAIN info # {}

\* The except clauses of verify_single_link's try.
VerifyExceptClauses == <<"Exception">>

\* Variant: every found product is valid
IsValidAlways(amazon, verdict) == TRUE
\* is_valid, from the reference price and the comparator's verdict.
IsValid(amazon, verdict) ==
    IF Truthy(amazon) /\ verdict # "unable_to_compare" THEN verdict = "lower" ELSE TRUE

\* The response of a verification whose product was found.
Response(u, title, amazon, info) ==
    LET scraped_price == Get(info, K_price, NotListed)
        response(price_comparison) ==
            [NoResult EXCEPT
                !.valid = IsValid(amazon, price_comparison.priceComparison),
                !.url = u,
                !.productTitle = Get(info, K_title, title),
                !.price = scraped_price,
                !.brand = Get(info, K_brand, NA),
                !.description = Get(info, K_description, <<>>),
                !.availability = Get(info, K_availability, NotSpecified),
                !.confidence = IF Lower(Get(info, K_price, <<>>)) # Lower(NotListed)
                               THEN "high" ELSE "medium",
                !.amazonPrice = amazon,
                !.priceComparison = price_comparison.priceComparison,
                !.savings = price_comparison.savings]
    IN  CHOOSE r \in {response(price_comparison) :
                        price_comparison \in {compare_prices(scraped_price, amazon)}} : TRUE

NoVerifyFrame ==
    /\ vpc = "none" /\ product_title = None /\ amazon_price = None
    /\ html_content = None /\ text_content = NoText /\ extract_error = None
    /\ product_info = NoInfo /\ llm_error = None /\ calls = <<>> /\ result = NoResult

\* verify_single_link(u, title, price) is called and calls fetch_html(url).
CallVerify ==
    /\ mode = "idle"
    /\ \E u \in Urls, title \in Titles, price \in RefPrices :
         /\ EnterFetch(u, DEFAULT_TIMEOUT, DEFAULT_MAX_RETRIES)
         /\ product_title' = title
         /\ amazon_price' = price
    /\ mode' = "verify"
    /\ vpc' = "fetch"
    /\ calls' = <<"fetch_html">>
    /\ UNCHANGED <<apiVars, pcall, cacheVars, html_content, text_content, extract_error, product_info,
                   llm_error, result>>

\* fetch_html is back: `if not html_content`, or the except clause if it raised.
VerifyFetched ==
    /\ mode = "verify" /\ vpc = "fetch"
    /\ fpc \in {"returned", "raised"}
    /\ IF fpc = "raised" /\ FirstMatch(VerifyExceptClauses, fret[1][1]) = "uncaught"
       THEN /\ vpc' = "raised"
            /\ UNCHANGED <<result, html_content>>
       ELSE IF fpc = "raised"
       THEN /\ result' = [NoResult EXCEPT !.error = <<"Internal error: ">> \o fret[2],
                                          !.errorType = "internal_error", !.url = url]
            /\ vpc' = "done"
            /\ UNCHANGED html_content
       ELSE IF ~HtmlPresent(fret[1])
       THEN /\ result' = [NoResult EXCEPT
                             !.error = IF Truthy(fret[2]) THEN fret[2]
                                       ELSE Str("Failed to fetch URL"),
                             !.errorType = "fetch_error", !.url = url,
                             !.productTitle = product_title]
            /\ vpc' = "done"
            /\ UNCHANGED html_content
       ELSE /\ html_content' = fret[1]
            /\ vpc' = "extract"
            /\ UNCHANGED result
    /\ fpc' = "none" /\ attempt' = 0 /\ last_error' = None /\ log' = <<>>
    /\ sleeps' = <<>> /\ fret' = <<None, None>> /\ timeout' = 0 /\ max_retries' = 0
    /\ proxies' = NoProxies /\ headers' = NoHeaders /\ sent' = <<>>
    /\ UNCHANGED <<apiVars, pcall, cacheVars, mode, url, product_title, amazon_price, text_content,
                   extract_error, product_info, llm_error, calls>>

\* text_content, extract_error = extract_text(html_content); `if not text_content`
VerifyExtract ==
    /\ mode = "verify" /\ vpc = "extract"
    /\ LET r == extract_text(html_content)
       IN  /\ calls' = Append(calls, "extract_text")
           /\ text_content' = r.text
           /\ extract_error' = r.error
           /\ IF ~TextPresent(r.text)
              THEN /\ result' = [NoResult EXCEPT
                                    !.error = IF Truthy(r.error) THEN r.error
                                              ELSE Str("Failed to extract content from page"),
                                    !.errorType = "extract_error", !.url = url,
                                    !.productTitle = product_title]
                   /\ vpc' = "done"
              ELSE /\ vpc' = "match"
                   /\ UNCHANGED result
    /\ UNCHANGED <<apiVars, pcall, cacheVars, mode, fetchVars, product_title, amazon_price, html_content,
                   product_info, llm_error>>

\* product_info, llm_error = find_product_info(...); `if not product_info`
VerifyMatch ==
    /\ mode = "verify" /\ vpc = "match"
    /\ \E reply \in OracleReplies, store_reply \in StoreReplies :
         LET r == find_product_info(text_content, product_title, OPENROUTER_API_KEY,
                                    secrets_cache, store_reply, reply)
         IN  /\ calls' = Append(calls, "find_product_info")
             /\ secrets_cache' = r.cache
             /\ product_info' = r.info
             /\ llm_error' = r.error
             /\ IF ~ProductPresent(r.info)
                THEN /\ result' = [NoResult EXCEPT
                                      !.productTitle = product_title, !.url = url,
                                      !.message = IF Truthy(r.error) THEN r.error
                                                  ELSE Str("Product not found on this page"),
                                      !.errorType = "product_not_found"]
                     /\ vpc' = "done"
                ELSE /\ vpc' = "compare"
                     /\ UNCHANGED result
    /\ UNCHANGED <<apiVars, pcall, proxy_password_cache, mode, fetchVars, product_title, amazon_price,
                   html_content, text_content, extract_error>>

\* compare_prices, is_valid and the response
VerifyCompare ==
    /\ mode = "verify" /\ vpc = "compare"
    /\ calls' = Append(calls, "compare_prices")
    /\ result' = Response(url, product_title, amazon_price, product_info)
    /\ vpc' = "done"
    /\ UNCHANGED <<apiVars, pcall, cacheVars, mode, fetchVars, product_title, amazon_price, html_content,
                   text_content, extract_error, product_info, llm_error>>

\* verify_single_link is left: its frame is gone.
LeaveVerify ==
    /\ url' = ""
    /\ vpc' = "none" /\ product_title' = None /\ amazon_price' = None
    /\ html_content' = None /\ text_content' = NoText /\ extract_error' = None
    /\ product_info' = NoInfo /\ llm_error' = None /\ calls' = <<>> /\ result' = NoResult
    /\ UNCHANGED <<fpc, timeout, max_retries, attempt, last_error, log, sleeps, fret, proxies,
                   headers, sent>>

\* verify_single_link(u, title, price) is entered: it calls fetch_html(url).
EnterVerify(u, title, price) ==
    /\ EnterFetch(u, DEFAULT_TIMEOUT, DEFAULT_MAX_RETRIES)
    /\ product_title' = title
    /\ amazon_price' = price
    /\ vpc' = "fetch"
    /\ calls' = <<"fetch_html">>
    /\ UNCHANGED <<html_content, text_content, extract_error, product_info, llm_error, result>>

\* A caller other than the endpoints has the result (or, past the except
\* clause, the exception).
VerifyDone ==
    /\ mode = "verify" /\ vpc \in {"done", "raised"}
    /\ http.endpoint = "none"
    /\ mode' = "idle"
    /\ LeaveVerify
    /\ UNCHANGED <<apiVars, pcall, cacheVars>>

----------------------------------------------------------------------------
(* parse_price, compare_prices and extract_text called by themselves *)

\* The price strings tried; none has more than two decimals.
PriceStrings ==
    {<<"£","1","0",".","9","9">>,
     <<"$","1","0",".","9","9">>,
     <<"€","1","0",".","9","9">>,
     <<"1","0",".","9","9">>,
     <<"£","1","5",".","9","9">>,
     <<"$","1","5",".","9","9">>,
     <<"£","2","0",".","9","9">>,
     <<"£","1",",","2","9","9",".","9","9">>,
     <<"£","1","0">>,
     <<"1","0",".">>,
     <<" ","£","1","0",".","5"," ">>,
     <<"0">>,
     <<"S","K","U"," ","1","2"," ","£","3",".","5","0">>,
     <<".","5">>,
     <<"1",".","2",".","3">>,
     <<"N","o","t"," ","l","i","s","t","e","d">>,
     <<"N","/","A">>,
     <<"n","/","a">>,
     <<"£","N","/","A">>,
     <<"N","o","t"," ","A","v","a","i","l","a","b","l","e">>,
     <<"f","r","e","e">>,
     <<"£">>,
     <<" "," ">>,
     <<>>}
PriceInputs == PriceStrings \cup {None, NotStr}
HtmlInputs == {None} \cup {Text(b) : b \in HtmlBodies}

\* Answers of the oracle that reach the line parser.
ParserContents ==
    {<<<<"t","i","t","l","e",":"," ","X","P","S">>,
       <<"n","o"," ","c","o","l","o","n"," ","h","e","r","e">>,
       <<"p","r","i","c","e",":"," ","£","1","0",".","9","9">>>>,
     <<<<"u","r","l",":"," ","h","t","t","p","s",":","/","/","x">>>>,
     <<<<" "," ","b","r","a","n","d"," "," ",":"," "," ","D","e","l","l"," "," ">>>>,
     <<<<"p","r","i","c","e",":"," ","£","1">>,
       <<"p","r","i","c","e",":"," ","£","2">>>>,
     <<<<":">>>>,
     <<<<"j","u","s","t"," ","t","e","x","t">>,
       <<"m","o","r","e"," ","t","e","x","t">>>>,
     <<<<"t","i","t","l","e",":"," ","X","P","S">>,
       <<"n","o","t","e",":"," ","N","o","t","_","F","o","u","n","d"," ","?">>>>,
     <<<<"n","o","t","_","f","o","u","n","d">>>>,
     <<<<"t","i","t","l","e",":"," ","n","o","t"," ","f","o","u","n","d">>>>}
DirectReplies ==
    OracleReplies \cup [exc : {""}, status : {200}, shape : {"ok"}, content : ParserContents]
ApiKeys == {"None", OPENROUTER_API_KEY}

NoCall == [fn |-> "none", a |-> None, b |-> None, ret |-> <<>>]

CallParsePrice ==
    /\ mode = "idle"
    /\ \E price_str \in PriceInputs :
         pcall' = [fn |-> "parse_price", a |-> price_str, b |-> None,
                   ret |-> parse_price(price_str)]
    /\ mode' = "helper"
    /\ UNCHANGED <<apiVars, cacheVars, fetchVars, verifyVars>>

CallComparePrices ==
    /\ mode = "idle"
    /\ \E scraped_price_str \in PriceInputs, amazon_price_str \in PriceInputs :
         pcall' = [fn |-> "compare_prices", a |-> scraped_price_str, b |-> amazon_price_str,
                   ret |-> compare_prices(scraped_price_str, amazon_price_str)]
    /\ mode' = "helper"
    /\ UNCHANGED <<apiVars, cacheVars, fetchVars, verifyVars>>

CallExtractText ==
    /\ mode = "idle"
    /\ \E html \in HtmlInputs :
         pcall' = [fn |-> "extract_text", a |-> html, b |-> None, ret |-> extract_text(html)]
    /\ mode' = "helper"
    /\ UNCHANGED <<apiVars, cacheVars, fetchVars, verifyVars>>

\* find_product_info called by itself, with or without an api_key.
CallFindProductInfo ==
    /\ mode = "idle"
    /\ \E reply \in DirectReplies, store_reply \in StoreReplies, api_key \in ApiKeys :
         LET r == find_product_info(Str("page"), <<"D","e","l","l">>, api_key, secrets_cache,
                                    store_reply, reply)
         IN  /\ pcall' = [fn |-> "find_product_info",
                          a |-> [reply |-> reply, store_reply |-> store_reply,
                                 cache |-> secrets_cache],
                          b |-> api_key, ret |-> r]
             /\ secrets_cache' = r.cache
    /\ mode' = "helper"
    /\ UNCHANGED <<apiVars, proxy_password_cache, fetchVars, verifyVars>>

\* The caller has the helper's return value.
HelperDone ==
    /\ mode = "helper"
    /\ mode' = "idle"
    /\ pcall' = NoCall
    /\ UNCHANGED <<apiVars, cacheVars, fetchVars, verifyVars>>

----------------------------------------------------------------------------
(* The endpoints: POST /verify (verify_link), POST /verify-batch (verify_batch) *)

MaxLinks == 11
SEMAPHORE_LIMIT == 10

NoHttp == [endpoint |-> "none", body |-> <<>>, status |-> 0, reply |-> <<>>, reads |-> 0]
NoBatch == [tasks |-> <<>>, results |-> <<>>, semaphore |-> 0, current |-> 0]

Dell == <<"D","e","l","l">>
\* The bodies of the /verify requests tried.
VerifyRequests ==
    [url : {"https://shop.example/p"}, productTitle : {Dell},
     amazonPrice : {None, <<>>, <<"£","2","0",".","9","9">>},
     productPrice : {None, <<"£","1","5",".","9","9">>}]
    \cup [url : {"", "https://shop.example/p"}, productTitle : {<<>>, Dell},
          amazonPrice : {None}, productPrice : {None}]

\* The links of the /verify-batch requests tried.
GoodLink == [url |-> "https://shop.example/p", productTitle |-> Dell,
             amazonPrice |-> <<"£","1","5",".","9","9">>]
NoSchemeLink == [url |-> "shop.example/p", productTitle |-> Dell, amazonPrice |-> None]
EmptyUrlLink == [url |-> "", productTitle |-> Dell, amazonPrice |-> None]
EmptyTitleLink == [url |-> "https://shop.example/p", productTitle |-> <<>>, amazonPrice |-> None]
Batches ==
    {<<>>, <<GoodLink>>, <<NoSchemeLink, GoodLink>>, <<GoodLink, EmptyUrlLink>>,
     <<GoodLink, NoSchemeLink>>, <<EmptyTitleLink, NoSchemeLink>>, [i \in 1..MaxLinks |-> NoSchemeLink]}

\* Variants: only the url is tested; only the title
RequestValidUrlOnly(u, title) == u # ""
RequestValidTitleOnly(u, title) == Truthy(title)
\* `if not request.url or not request.productTitle`, negated
RequestValid(u, title) == u # "" /\ Truthy(title)

\* Variant: `is not None` for `or`
ReferencePriceNotNone(amazonPrice, productPrice) ==
    IF amazonPrice # None THEN amazonPrice ELSE productPrice
\* request.amazonPrice or request.productPrice
ReferencePrice(amazonPrice, productPrice) ==
    IF Truthy(amazonPrice) THEN amazonPrice ELSE productPrice

\* Variant: every result counted
ValidCountAll(results) == Len(results)
\* sum(1 for r in results if r.get('valid', False))
ValidCount(results) == Cardinality({i \in 1..Len(results) : results[i].valid})

\* POST /verify: 400 for a missing field, else verify_single_link is awaited.
PostVerify ==
    /\ mode = "idle"
    /\ \E body \in VerifyRequests :
         IF ~RequestValid(body.url, body.productTitle)
         THEN /\ http' = [endpoint |-> "verify", body |-> body, status |-> 400,
                          reply |-> Str("Missing required fields: url and productTitle"),
                          reads |-> 0]
              /\ mode' = "endpoint"
              /\ UNCHANGED <<fetchVars, verifyVars>>
         ELSE /\ http' = [endpoint |-> "verify", body |-> body, status |-> 0,
                          reply |-> <<>>, reads |-> 0]
              /\ EnterVerify(body.url, body.productTitle,
                             ReferencePrice(body.amazonPrice, body.productPrice))
              /\ mode' = "verify"
    /\ UNCHANGED <<cacheVars, pcall, batch>>

\* verify_link has verify_single_link's result and returns it.
VerifyReturn ==
    /\ mode = "verify" /\ vpc \in {"done", "raised"}
    /\ http.endpoint = "verify"
    /\ http' = [http EXCEPT !.status = IF vpc = "done" THEN 200 ELSE 500, !.reply = result]
    /\ LeaveVerify
    /\ mode' = "endpoint"
    /\ UNCHANGED <<cacheVars, pcall, batch>>

\* POST /verify-batch: 400 for no links, else one process_link task per link
\* is created and the handler waits in gather.
PostVerifyBatch ==
    /\ mode = "idle"
    /\ \E links \in Batches :
         IF links = <<>>
         THEN /\ http' = [endpoint |-> "verify-batch", body |-> [links |-> links],
                          status |-> 400, reply |-> Str("No links provided"), reads |-> 0]
              /\ batch' = NoBatch
         ELSE /\ http' = [endpoint |-> "verify-batch", body |-> [links |-> links],
                          status |-> 0, reply |-> <<>>, reads |-> 0]
              /\ batch' = [tasks |-> [i \in 1..Len(links) |-> "pending"],
                           results |-> [i \in 1..Len(links) |-> NoResult],
                           semaphore |-> SEMAPHORE_LIMIT, current |-> 0]
    /\ mode' = "endpoint"
    /\ UNCHANGED <<cacheVars, fetchVars, verifyVars, pcall>>

\* Variant: the semaphore is not released
ReleasedNot(sem) == sem
\* leaving `async with semaphore`
Released(sem) == sem + 1

\* Variant: only a task that waits for the semaphore is run, one that has
\* not started never is
ReadyWaitingOnly ==
    {j \in 1..Len(batch.tasks) : batch.tasks[j] = "waiting" /\ batch.semaphore > 0}
\* The tasks the event loop can run: not started yet, or waiting for a
\* semaphore that has been released.
Ready ==
    {j \in 1..Len(batch.tasks) :
        batch.tasks[j] = "pending" \/ (batch.tasks[j] = "waiting" /\ batch.semaphore > 0)}
InFlight == {j \in 1..Len(batch.tasks) : batch.tasks[j] = "running"}

\* The event loop runs the first ready task, which it can do only when no
\* other coroutine is running: process_link enters the semaphore (or waits for
\* it), returns the validation error or calls verify_single_link.
TaskStart ==
    /\ mode = "endpoint" /\ http.endpoint = "verify-batch" /\ http.status = 0
    /\ Ready # {}
    /\ LET j == CHOOSE i \in Ready : \A k \in Ready : i <= k
           link == http.body.links[j]
       IN  IF batch.semaphore = 0
           THEN /\ batch' = [batch EXCEPT !.tasks[j] = "waiting"]
                /\ UNCHANGED <<mode, fetchVars, verifyVars>>
           ELSE IF ~RequestValid(link.url, link.productTitle)
           THEN /\ batch' = [batch EXCEPT
                                !.tasks[j] = "done",
                                !.results[j] = [NoResult EXCEPT
                                                   !.error = Str("Missing url or productTitle"),
                                                   !.errorType = "validation_error",
                                                   !.url = link.url]]
                /\ UNCHANGED <<mode, fetchVars, verifyVars>>
           ELSE /\ batch' = [batch EXCEPT !.tasks[j] = "running", !.semaphore = @ - 1,
                                          !.current = j]
                /\ EnterVerify(link.url, link.productTitle, link.amazonPrice)
                /\ mode' = "verify"
    /\ UNCHANGED <<cacheVars, pcall, http>>

\* verify_single_link is back in process_link: the semaphore is released and
\* the task is done with that result.
TaskReturn ==
    /\ mode = "verify" /\ vpc \in {"done", "raised"}
    /\ http.endpoint = "verify-batch"
    /\ batch' = [batch EXCEPT !.tasks[batch.current] = "done",
                              !.results[batch.current] = result,
                              !.semaphore = Released(@), !.current = 0]
    /\ http' = [http EXCEPT !.status = IF vpc = "done" THEN 0 ELSE 500]
    /\ LeaveVerify
    /\ mode' = "endpoint"
    /\ UNCHANGED <<cacheVars, pcall>>

\* gather has every result: the counts are taken and the response returned.
BatchRespond ==
    /\ mode = "endpoint" /\ http.endpoint = "verify-batch" /\ http.status = 0
    /\ \A j \in 1..Len(batch.tasks) : batch.tasks[j] = "done"
    /\ http' = [http EXCEPT !.status = 200,
                            !.reply = [results |-> batch.results,
                                       validCount |-> ValidCount(batch.results),
                                       totalCount |-> Len(batch.results)]]
    /\ UNCHANGED <<cacheVars, mode, fetchVars, verifyVars, pcall, batch>>

\* The response is sent.
ResponseSent ==
    /\ mode = "endpoint" /\ http.status # 0
    /\ http' = NoHttp
    /\ batch' = NoBatch
    /\ mode' = "idle"
    /\ UNCHANGED <<cacheVars, fetchVars, verifyVars, pcall>>

----------------------------------------------------------------------------

Init ==
    /\ proxy_password_cache = "None"
    /\ secrets_cache = [n \in {} |-> ""]
    /\ mode = "idle"
    /\ NoFrame
    /\ NoVerifyFrame
    /\ pcall = NoCall
    /\ http = NoHttp
    /\ batch = NoBatch

Next ==
    \/ CallFetch
    \/ FetchGetProxies
    \/ FetchAttempt
    \/ FetchExhausted
    \/ FetchDone
    \/ CallVerify
    \/ VerifyFetched
    \/ VerifyExtract
    \/ VerifyMatch
    \/ VerifyCompare
    \/ VerifyDone
    \/ CallParsePrice
    \/ CallComparePrices
    \/ CallExtractText
    \/ HelperDone

Spec == Init /\ [][Next]_vars

\* The same with find_product_info called by itself too.
OracleNext ==
    \/ Next
    \/ CallFindProductInfo

OracleSpec == Init /\ [][OracleNext]_vars

\* The service: requests to the two endpoints, served one event-loop step at
\* a time.
ApiNext ==
    \/ PostVerify
    \/ VerifyReturn
    \/ PostVerifyBatch
    \/ TaskStart
    \/ TaskReturn
    \/ BatchRespond
    \/ ResponseSent
    \/ FetchGetProxies
    \/ FetchAttempt
    \/ FetchExhausted
    \/ VerifyFetched
    \/ VerifyExtract
    \/ VerifyMatch
    \/ VerifyCompare

ApiSpec == Init /\ [][ApiNext]_vars

\* The steps the program takes by itself once it has been called: a call
\* that has begun goes on (fetch_html, verify_single_link and verify_batch
\* wait for nothing but a request that returns or times out, and the
\* event loop runs a task that is ready).
Steps ==
    \/ FetchGetProxies
    \/ FetchAttempt
    \/ FetchExhausted
    \/ FetchDone
    \/ VerifyFetched
    \/ VerifyExtract
    \/ VerifyMatch
    \/ VerifyCompare
    \/ TaskStart
    \/ TaskReturn
    \/ BatchRespond
    \/ ResponseSent

\* fetch_html called with every retry count, and verify_batch with its
\* verify_single_link tasks, with the program running on.
RunNext ==
    \/ CallFetch
    \/ PostVerifyBatch
    \/ Steps

RunSpec == Init /\ [][RunNext]_vars /\ WF_vars(Steps)

----------------------------------------------------------------------------
(* Properties *)

Stages == <<"fetch_html", "extract_text", "find_product_info", "compare_prices">>
Finished == mode = "verify" /\ vpc = "done"
Matched == Finished /\ result.errorType = "None"

IsBlocked(o) == o.exc = "" /\ o.status \in BlockedStatuses
IsSuccess(o) == o.exc = "" /\ o.status \notin BlockedStatuses /\ ~RaisesForStatus(o.status)
IsRetryable(o) ==
    \/ o.exc = "" /\ ~IsSuccess(o)
    \/ o.exc \in {"ProxyError", "SSLError", "ConnectionError", "ConnectTimeout",
                  "ReadTimeout", "TooManyRedirects"}
TimedOut == <<"Request timed out after ", ToString(timeout), "s">>

\* C1: when fetch, extraction and match all succeeded, valid is true exactly
\* when the reference price is absent or empty, or the verdict is
\* unable_to_compare or lower; with a reference price and a verdict of same or
\* higher, valid is false.
C1_ValidIffNoBasisOrLower ==
    Matched =>
        LET verdict == compare_prices(result.price, amazon_price).priceComparison
        IN  /\ result.priceComparison = verdict
            /\ result.valid <=> (\/ amazon_price \in {None, <<>>}
                                 \/ verdict \in {"unable_to_compare", "lower"})
            /\ (Truthy(amazon_price) /\ verdict \in {"same", "higher"}) => ~result.valid
C1_Witness ==
    Matched /\ Truthy(amazon_price) /\ result.priceComparison = "same" /\ ~result.valid

\* C2: the stages are called in the order fetch, extract, match, compare, each
\* at most once; extract_text only after fetch_html returned html,
\* find_product_info only after extract_text returned text, compare_prices only
\* after find_product_info returned a product; a failed stage is the last called.
C2_StagesInOrder ==
    mode = "verify" =>
        /\ Len(calls) <= Len(Stages)
        /\ calls = SubSeq(Stages, 1, Len(calls))
        /\ Len(calls) >= 2 => Truthy(html_content)
        /\ Len(calls) >= 3 => text_content > 0
        /\ Len(calls) >= 4 => DOMAIN product_info # {}
        /\ vpc = "done" =>
             Len(calls) = CASE result.errorType \in {"fetch_error", "internal_error"} -> 1
                            [] result.errorType = "extract_error"     -> 2
                            [] result.errorType = "product_not_found" -> 3
                            [] OTHER                                  -> 4
C2_Witness ==
    Finished /\ result.errorType = "extract_error" /\ calls = <<"fetch_html", "extract_text">>

\* C3: verify_single_link never lets an exception out: an exception raised by
\* a stage ends the verification with valid=false, errorType internal_error
\* and the error 'Internal error: ' followed by the exception's text.
C3_NoExceptionEscapes ==
    /\ [](vpc # "raised")
    /\ [][(mode = "verify" /\ vpc = "fetch" /\ fpc = "raised") =>
            /\ vpc' = "done"
            /\ ~result'.valid
            /\ result'.errorType = "internal_error"
            /\ result'.error = <<"Internal error: ">> \o fret[2]]_vars
C3_Witness ==
    /\ Finished /\ ~result.valid /\ result.errorType = "internal_error"
    /\ result.error = <<"Internal error: ", ExcText("PermissionDenied", 0)>>

\* C4 (as claimed): on every return of fetch_html exactly one of html and the
\* error message is present, for every max_retries, 0 included.
C4_ExactlyOnePresent ==
    fpc = "returned" => ((fret[1] # None) # (fret[2] # None))
\* C4 (amended): on every return of fetch_html with max_retries >= 1 exactly
\* one of html and the error message is present; with max_retries <= 0 no
\* request is made and both are absent.
C4_ExactlyOnePresentIfAttempted ==
    fpc = "returned" =>
        IF max_retries >= 1
        THEN log # <<>> /\ ((fret[1] # None) # (fret[2] # None))
        ELSE log = <<>> /\ fret = <<None, None>>
C4_Witness ==
    fpc = "returned" /\ Len(log) = 2 /\ fret = <<<<>>, None>>

\* C5: when every attempt gets a 403, 429 or 503, fetch_html makes exactly
\* max_retries requests, sleeps 2^attempt seconds after each attempt but the
\* last, and returns no html with the message of the last attempt's status.
C5_BlockedRetriesBackOff ==
    (log # <<>> /\ \A i \in 1..Len(log) : IsBlocked(log[i])) =>
        /\ Len(sleeps) = (IF Len(log) < max_retries THEN Len(log) ELSE max_retries - 1)
        /\ \A i \in 1..Len(sleeps) : sleeps[i] = 2 ^ i
        /\ (fpc = "returned") <=> (Len(log) = max_retries)
        /\ fpc = "returned" => fret = <<None, BlockedMessage(log[Len(log)].status)>>
C5_Witness ==
    /\ fpc = "returned" /\ max_retries = 3 /\ sleeps = <<2, 4>>
    /\ Len(log) = 3 /\ log[1].status = 403 /\ log[2].status = 429 /\ log[3].status = 503

\* C6: fetch_html makes at most max_retries requests, and when all of them
\* fail with retryable errors it returns no html and the message the last
\* attempt recorded.
C6_LastErrorReturned ==
    /\ Len(log) <= max_retries
    /\ (/\ fpc = "returned" /\ log # <<>> /\ Len(log) = max_retries
        /\ \A i \in 1..Len(log) : IsRetryable(log[i])) =>
           LET o == log[Len(log)]
           IN  fret = <<None, IF IsBlocked(o) THEN BlockedMessage(o.status)
                              ELSE ClauseMessage(Handler(Raised(o)),
                                                 ExcText(Raised(o), Len(log)), timeout)>>
C6_Witness ==
    /\ fpc = "returned" /\ Len(log) = 3
    /\ log[1].exc = "ProxyError" /\ log[2].status = 404 /\ log[3].exc = "SSLError"
    /\ fret = <<None, <<"SSL/TLS error: ", ExcText("SSLError", 3)>> >>

\* C7: the first attempt with a successful response ends the fetch: its text
\* is returned with no error message, there is no later request and no sleep
\* after it, whatever came before and whatever the content type.
C7_SuccessReturnsAtOnce ==
    \A i \in 1..Len(log) :
        IsSuccess(log[i]) =>
            /\ i = Len(log)
            /\ fpc = "returned"
            /\ fret = <<Text(log[i].body), None>>
            /\ Len(sleeps) = i - 1
C7_Witness ==
    /\ fpc = "returned" /\ Len(log) = 3 /\ IsSuccess(log[3]) /\ ~log[3].html_type
    /\ Len(sleeps) = 2 /\ fret[2] = None

\* C8: a url without a scheme ends the fetch on that attempt with the
\* invalid-URL message: no sleep, no further attempt, even with attempts left.
C8_MissingSchemaFailsAtOnce ==
    \A i \in 1..Len(log) :
        log[i].exc = "MissingSchema" =>
            /\ i = Len(log)
            /\ fpc = "returned"
            /\ fret = <<None, Str("Invalid URL format - missing http:// or https://")>>
            /\ Len(sleeps) = i - 1
C8_Witness ==
    /\ fpc = "returned" /\ max_retries = 3 /\ Len(log) = 1
    /\ log[1].exc = "MissingSchema" /\ sleeps = <<>>

\* C9: a timeout of either kind (connect or read) on an attempt with attempts
\* left is recorded as a timeout error and followed by a sleep of 1 second.
C9_TimeoutsSleepOneSecond ==
    \A i \in 1..Len(log) :
        (log[i].exc \in {"ConnectTimeout", "ReadTimeout"} /\ i < max_retries) =>
            /\ Len(sleeps) >= i /\ sleeps[i] = 1
            /\ i = Len(log) => last_error = TimedOut

\* C10: an SSL failure on an attempt with attempts left is recorded as an
\* SSL/TLS error and followed by a sleep of 1 second, whatever the attempt.
C10_SslSleepsOneSecond ==
    \A i \in 1..Len(log) :
        (log[i].exc = "SSLError" /\ i < max_retries) =>
            /\ Len(sleeps) >= i /\ sleeps[i] = 1
            /\ i = Len(log) =>
                 /\ fpc = "loop"
                 /\ last_error = <<"SSL/TLS error: ", ExcText("SSLError", i)>>
C10_Witness ==
    /\ fpc = "loop" /\ max_retries = 3 /\ Len(log) = 2 /\ log[2].exc = "SSLError"
    /\ sleeps = <<2, 1>>

\* C11: when fetch_html returns no html (None or ""), verify_single_link
\* returns valid false with errorType fetch_error and, as error, the fetcher's
\* message or 'Failed to fetch URL' when it gave none; the result has no
\* price, brand, priceComparison or savings, and no later stage is called.
C11_NoHtmlIsFetchError ==
    [][(mode = "verify" /\ vpc = "fetch" /\ fpc = "returned" /\ fret[1] \in {None, <<>>}) =>
        /\ vpc' = "done"
        /\ ~result'.valid
        /\ result'.errorType = "fetch_error"
        /\ result'.error = IF fret[2] \in {None, <<>>} THEN Str("Failed to fetch URL")
                           ELSE fret[2]
        /\ result'.price = None /\ result'.brand = None
        /\ result'.priceComparison = "None" /\ result'.savings = None
        /\ calls' = <<"fetch_html">>]_vars
C11_Witness ==
    /\ Finished /\ result.errorType = "fetch_error"
    /\ result.error = Str("Failed to fetch URL") /\ calls = <<"fetch_html">>

\* C12: the result is an extract_error exactly when the fetch succeeded and
\* extract_text returned no text (None or ""); a text of 1 to 99 characters,
\* returned with the warning, is passed on to find_product_info.
C12_ExtractErrorIffNoText ==
    /\ Finished =>
         (result.errorType = "extract_error" <=>
              (Len(calls) >= 2 /\ html_content # None /\ text_content \in {NoText, 0}))
    /\ (mode = "verify" /\ Len(calls) >= 2 /\ text_content \in 1..99) =>
         /\ extract_error = Str("Page content appears to be empty or very short")
         /\ vpc = "match" \/ (Len(calls) >= 3 /\ calls[3] = "find_product_info")
C12_Witness ==
    /\ Finished /\ text_content = 99 /\ extract_error # None
    /\ calls = Stages /\ result.valid

\* C13: when fetch and extraction succeeded and find_product_info returns no
\* product (NOT_FOUND or a failure of the call), the result is valid false
\* with errorType product_not_found and, as message, the oracle's error or
\* 'Product not found on this page'; compare_prices is not called.
C13_NoProductIsNotFound ==
    (Finished /\ Len(calls) >= 3 /\ product_info = NoInfo) =>
        /\ ~result.valid
        /\ result.errorType = "product_not_found"
        /\ result.message = IF llm_error \in {None, <<>>}
                            THEN Str("Product not found on this page") ELSE llm_error
        /\ result.error = None /\ result.priceComparison = "None"
        /\ calls = <<"fetch_html", "extract_text", "find_product_info">>
C13_Witness ==
    /\ Finished /\ result.errorType = "product_not_found"
    /\ result.message = Str("LLM API rate limit exceeded")
    /\ calls = <<"fetch_html", "extract_text", "find_product_info">>

\* C14: every stage returns a (result, error) pair whatever fails (network,
\* parser, oracle, credential provider): fetch_html never ends by raising.
\* extract_text and find_product_info end in `except Exception` clauses that
\* return a pair, which is how the operators of those names are written.
C14_StagesNeverRaise ==
    fpc # "raised"

\* The call of compare_prices(a, b) that has just returned, and the numbers
\* its arguments parse to.
Compared == mode = "helper" /\ pcall.fn = "compare_prices"
ScrapedNumber == parse_price(pcall.a)
ReferenceNumber == parse_price(pcall.b)
BothParse == ScrapedNumber.some /\ ReferenceNumber.some
\* s < r and r - s in hundredths, for numbers with at most two decimals
Below(s, r) == s.m * 10 ^ r.k < r.m * 10 ^ s.k
CentsSaved(s, r) == r.m * 10 ^ (2 - r.k) - s.m * 10 ^ (2 - s.k)
TwoDecimals(c) ==
    Digits(c \div 100) \o <<".", DigitChars[((c \div 10) % 10) + 1], DigitChars[(c % 10) + 1]>>

\* C15: for price strings that parse to numbers S and R, compare_prices
\* returns exactly one verdict: lower iff S < R, higher iff S > R, same iff
\* S = R.
C15_VerdictFollowsOrder ==
    (Compared /\ BothParse) =>
        /\ pcall.ret.priceComparison \in {"lower", "higher", "same"}
        /\ pcall.ret.priceComparison = "lower" <=> Below(ScrapedNumber, ReferenceNumber)
        /\ pcall.ret.priceComparison = "higher" <=> Below(ReferenceNumber, ScrapedNumber)
        /\ pcall.ret.priceComparison = "same" <=>
               (~Below(ScrapedNumber, ReferenceNumber) /\ ~Below(ReferenceNumber, ScrapedNumber))
C15_Witness ==
    /\ Compared /\ BothParse /\ pcall.a # pcall.b
    /\ pcall.ret.priceComparison = "same"

\* C16: compare_prices returns savings exactly when its verdict is lower, and
\* then the reference price minus the scraped price with two decimals; so do
\* the priceComparison and savings of every verification result.
C16_SavingsIffLower ==
    /\ Compared =>
         /\ pcall.ret.savings # None <=> pcall.ret.priceComparison = "lower"
         /\ pcall.ret.priceComparison = "lower" =>
              pcall.ret.savings =
                  <<"£">> \o TwoDecimals(CentsSaved(ScrapedNumber, ReferenceNumber))
    /\ Finished =>
         /\ result.savings # None <=> result.priceComparison = "lower"
         /\ result.priceComparison = "lower" =>
              result.savings =
                  <<"£">> \o TwoDecimals(CentsSaved(parse_price(result.price),
                                                     parse_price(amazon_price)))
C16_Witness ==
    /\ Compared /\ pcall.a = <<"S","K","U"," ","1","2"," ","£","3",".","5","0">>
    /\ pcall.ret.savings = <<"£","1","2","8","7",".","9","9">>

\* C17: compare_prices returns unable_to_compare, without savings, exactly when
\* the scraped or the reference price parses to nothing (a reference of None
\* or "" parses to nothing); two prices that parse are never unable_to_compare.
C17_UnableIffUnparsed ==
    Compared =>
        /\ pcall.ret.priceComparison = "unable_to_compare" <=> ~BothParse
        /\ pcall.ret.priceComparison = "unable_to_compare" => pcall.ret.savings = None
C17_Witness ==
    /\ Compared /\ pcall.a = <<"f","r","e","e">> /\ pcall.b = <<"£","1","5",".","9","9">>
    /\ pcall.ret = [priceComparison |-> "unable_to_compare", savings |-> None]

\* The call of parse_price(a) that has just returned; its argument stripped
\* and without currency symbols and commas.
Parsed == mode = "helper" /\ pcall.fn = "parse_price"
Cleaned == Remove(Strip(pcall.a), {"£", "$", "€", ","})
\* v is the number written at i..l of s: digits i..j, then nothing (l = j) or
\* a point and the digits j+2..l.
IsNumberAt(s, i, j, l, v) ==
    /\ \A x \in i..j : IsDigit(s[x])
    /\ j = Len(s) \/ ~IsDigit(s[j + 1])
    /\ IF j < Len(s) /\ s[j + 1] = "."
       THEN /\ l >= j + 1
            /\ \A x \in (j + 2)..l : IsDigit(s[x])
            /\ l = Len(s) \/ ~IsDigit(s[l + 1])
            /\ v.m * 10 ^ (l - j - 1) =
                   DigitsValue(SubSeq(s, i, j) \o SubSeq(s, j + 2, l)) * 10 ^ v.k
       ELSE /\ l = j
            /\ v.m = DigitsValue(SubSeq(s, i, j)) * 10 ^ v.k

\* C18: parse_price returns None for an argument that is not a str or is
\* empty, for a string that without currency symbols and commas is, whatever
\* its case, one of the sentinels, and for a string without a digit; for every
\* other string it returns the number written by the first maximal run of
\* digits of the cleaned string with its optional decimal part.
C18_FirstNumberOrNone ==
    Parsed =>
        IF \/ pcall.a \in {None, NotStr, <<>>}
           \/ Lower(Cleaned) \in Sentinels
           \/ \A x \in 1..Len(pcall.a) : ~IsDigit(pcall.a[x])
        THEN pcall.ret = NoPrice
        ELSE /\ pcall.ret.some
             /\ \E i \in 1..Len(Cleaned) :
                  /\ \A x \in 1..(i - 1) : ~IsDigit(Cleaned[x])
                  /\ \E j \in i..Len(Cleaned), l \in i..Len(Cleaned) :
                       IsNumberAt(Cleaned, i, j, l, pcall.ret)
C18_Witness ==
    /\ Parsed /\ pcall.a = <<"£","1",",","2","9","9",".","9","9">>
    /\ pcall.ret = [some |-> TRUE, m |-> 129999, k |-> 2]

\* s with every currency symbol replaced by sym
Resymboled(s, sym) == [i \in 1..Len(s) |-> IF s[i] \in {"£", "$", "€"} THEN sym ELSE s[i]]
Unsymboled(s) == Remove(s, {"£", "$", "€"})

\* C19: compare_prices does not look at currencies: replacing or removing the
\* currency symbol of either argument leaves verdict and savings as they are,
\* and savings always starts with a pound sign.
C19_CurrencyAgnostic ==
    Compared =>
        /\ \A sym \in {"£", "$", "€"} :
             /\ compare_prices(Resymboled(pcall.a, sym), pcall.b) = pcall.ret
             /\ compare_prices(pcall.a, Resymboled(pcall.b, sym)) = pcall.ret
        /\ compare_prices(Unsymboled(pcall.a), pcall.b) = pcall.ret
        /\ compare_prices(pcall.a, Unsymboled(pcall.b)) = pcall.ret
        /\ pcall.ret.savings # None => pcall.ret.savings[1] = "£"
C19_Witness ==
    /\ Compared /\ pcall.a = <<"$","1","0",".","9","9">> /\ pcall.b = <<"£","1","5",".","9","9">>
    /\ pcall.ret = [priceComparison |-> "lower", savings |-> <<"£","5",".","0","0">>]

\* C20: extract_text returns no text, with an error message, exactly when the
\* html is None or empty or the parser throws; otherwise it returns the text
\* extracted (which may be empty), with the warning exactly when the text has
\* fewer than 100 characters and with no message when it has 100 or more.
C20_ExtractTextPairs ==
    (mode = "helper" /\ pcall.fn = "extract_text") =>
        /\ pcall.ret.text = NoText <=> (pcall.a \in {None, <<>>} \/ SoupText(pcall.a) = -2)
        /\ pcall.ret.text = NoText => Truthy(pcall.ret.error)
        /\ pcall.ret.text # NoText =>
             /\ pcall.ret.text = SoupText(pcall.a)
             /\ pcall.ret.text < 100 <=> pcall.ret.error # None
             /\ pcall.ret.text < 100 =>
                  pcall.ret.error = Str("Page content appears to be empty or very short")
C20_Witness ==
    /\ mode = "helper" /\ pcall.fn = "extract_text"
    /\ pcall.a = Str("<html><script/></html>")
    /\ pcall.ret = [text |-> 0, error |-> Str("Page content appears to be empty or very short")]

\* The failures that are retried after 2^attempt seconds, with the text each
\* one's message starts with.
BackOffPrefix(o) ==
    CASE o.exc = "ProxyError"                  -> "Proxy connection failed: "
      [] o.exc = "ConnectionError"             -> "Connection failed: "
      [] o.exc = "" /\ o.status = 404          -> "HTTP error: "
      [] o.exc = "TooManyRedirects"            -> "Request failed: "
      [] OTHER                                 -> ""
BackOffCause(o) == IF o.exc = "" THEN "HTTPError" ELSE o.exc

\* C29: a proxy failure, a connection failure, an HTTP error status other than
\* 403, 429 and 503 (404 here) and any other failure of the request
\* (TooManyRedirects here) are each recorded with their own message and, when
\* attempts remain, followed by a sleep of 2^attempt seconds and a retry; none
\* ends the fetch before max_retries attempts.
C29_OtherFailuresBackOff ==
    \A i \in 1..Len(log) :
        BackOffPrefix(log[i]) # "" =>
            /\ i < max_retries => (Len(sleeps) >= i /\ sleeps[i] = 2 ^ i)
            /\ i = Len(log) =>
                 /\ last_error = <<BackOffPrefix(log[i]), ExcText(BackOffCause(log[i]), i)>>
                 /\ fpc = "loop" \/ (fpc = "returned" /\ i = max_retries)
                 /\ fpc = "returned" => fret = <<None, last_error>>
C29_Witness ==
    /\ fpc = "loop" /\ max_retries = 3 /\ attempt = 2 /\ sleeps = <<2, 4>>
    /\ log[1].exc = "ProxyError" /\ log[2].exc = "" /\ log[2].status = 404
    /\ last_error = <<"HTTP error: ", ExcText("HTTPError", 2)>>

RECURSIVE SumSeq(_)
SumSeq(s) == IF s = <<>> THEN 0 ELSE s[1] + SumSeq(Tail(s))

\* C30 (as claimed): a call of fetch_html sleeps only between two attempts, at
\* most max_retries - 1 times, for at most 2^max_retries - 2 seconds in all.
C30_SleepsBounded ==
    fpc # "none" =>
        /\ Len(sleeps) <= max_retries - 1
        /\ SumSeq(sleeps) <= 2 ^ max_retries - 2
        /\ Len(sleeps) <= Len(log)
        /\ (fpc \in {"returned", "raised"} /\ log # <<>>) => Len(sleeps) = Len(log) - 1
\* C30 (amended): with max_retries >= 1 a call sleeps only between two
\* attempts, never after the last attempt or a return, so at most
\* max_retries - 1 times and at most 2^max_retries - 2 seconds in all; with
\* max_retries <= 0 it makes no attempt and never sleeps.
C30_SleepsBoundedIfAttempted ==
    fpc # "none" =>
        /\ max_retries >= 1 =>
             /\ Len(sleeps) <= max_retries - 1
             /\ SumSeq(sleeps) <= 2 ^ max_retries - 2
        /\ max_retries = 0 => (sleeps = <<>> /\ log = <<>>)
        /\ Len(sleeps) <= Len(log)
        /\ (fpc \in {"returned", "raised"} /\ log # <<>>) => Len(sleeps) = Len(log) - 1
        /\ (Len(log) = max_retries /\ log # <<>>) => Len(sleeps) = Len(log) - 1
C30_Witness ==
    /\ fpc = "returned" /\ max_retries = 3 /\ Len(log) = 3 /\ sleeps = <<2, 4>>
    /\ fret[1] = None

\* The call of find_product_info that has just returned, the lines of the
\* oracle's answer, and whether the answer got as far as the line parser.
Queried == mode = "helper" /\ pcall.fn = "find_product_info"
AnswerLines == pcall.a.reply.content
HasColon(line) == \E j \in 1..Len(line) : line[j] = ":"
\* line is `k` + ":" + `v` up to surrounding blanks, with no colon in the key part
SplitsInto(line, k, v) ==
    \E c \in 1..Len(line) :
        /\ line[c] = ":" /\ \A j \in 1..(c - 1) : line[j] # ":"
        /\ k = Strip(SubSeq(line, 1, c - 1))
        /\ v = Strip(SubSeq(line, c + 1, Len(line)))
KeyIs(line, k) ==
    \E c \in 1..Len(line) :
        /\ line[c] = ":" /\ \A j \in 1..(c - 1) : line[j] # ":"
        /\ k = Strip(SubSeq(line, 1, c - 1))
AnswerParsed ==
    /\ Queried
    /\ pcall.b = OPENROUTER_API_KEY \/ pcall.a.store_reply.ok
           \/ "OPENROUTER_API_KEY" \in DOMAIN pcall.a.cache
    /\ pcall.a.reply.exc = "" /\ pcall.a.reply.status = 200 /\ pcall.a.reply.shape = "ok"
    /\ \E i \in 1..Len(AnswerLines) : Strip(AnswerLines[i]) # <<>>
    /\ \A i \in 1..Len(AnswerLines) : ~Contains(Upper(AnswerLines[i]), NOT_FOUND)

\* C27: the oracle's answer is parsed line by line: a line without a colon is
\* ignored, a line with a colon gives the trimmed text before its first colon
\* as key and the trimmed rest as value (a later line with the same key
\* replacing it), and a record is returned exactly when some line has a
\* colon, whatever the other lines are.
C27_LinesSplitAtFirstColon ==
    AnswerParsed =>
        /\ pcall.ret.info # NoInfo <=> \E i \in 1..Len(AnswerLines) : HasColon(AnswerLines[i])
        /\ pcall.ret.info # NoInfo <=> pcall.ret.error = None
        /\ \A k \in DOMAIN pcall.ret.info :
             \E i \in 1..Len(AnswerLines) : SplitsInto(AnswerLines[i], k, pcall.ret.info[k])
        /\ \A i \in 1..Len(AnswerLines) :
             HasColon(AnswerLines[i]) =>
                 \E k \in DOMAIN pcall.ret.info :
                     /\ KeyIs(AnswerLines[i], k)
                     /\ \E j \in i..Len(AnswerLines) :
                            SplitsInto(AnswerLines[j], k, pcall.ret.info[k])
C27_Witness ==
    /\ AnswerParsed /\ Len(AnswerLines) = 3 /\ ~HasColon(AnswerLines[2])
    /\ DOMAIN pcall.ret.info = {K_title, K_price}
    /\ pcall.ret.info[K_price] = <<"£","1","0",".","9","9">>

\* C25: once get_secret(name) or get_proxy_password() has succeeded, every
\* later call returns the cached value and does not ask the store, whatever
\* the store would answer now (another value, a failure); no step removes or
\* replaces a cached entry.
C25_CachedForGood ==
    [][/\ proxy_password_cache # "None" => proxy_password_cache' = proxy_password_cache
       /\ \A n \in DOMAIN secrets_cache :
            n \in DOMAIN secrets_cache' /\ secrets_cache'[n] = secrets_cache[n]
       /\ (fpc = "proxies" /\ proxy_password_cache # "None") =>
            (fpc' = "loop" /\ proxies' = proxy_password_cache)
       /\ (mode = "idle" /\ Queried' /\ pcall'.b = "None"
              /\ "OPENROUTER_API_KEY" \in DOMAIN secrets_cache) =>
            /\ ~pcall'.ret.read
            /\ pcall'.ret.error # <<"Failed to retrieve API key from Secret Manager: ",
                                    ExcText("PermissionDenied", 0)>>]_vars
C25_Witness ==
    /\ Queried /\ pcall.b = "None" /\ ~pcall.ret.read
    /\ "OPENROUTER_API_KEY" \in DOMAIN pcall.a.cache
    /\ pcall.a.cache["OPENROUTER_API_KEY"] = "pw-A"
    /\ pcall.a.store_reply = [ok |-> TRUE, value |-> "pw-B"]
    /\ secrets_cache = pcall.a.cache
    /\ proxy_password_cache = "pw-B"

\* The request being served, and the response made for it.
BadVerifyRequest ==
    http.endpoint = "verify" /\ (http.body.url = "" \/ http.body.productTitle = <<>>)
BadBatchRequest == http.endpoint = "verify-batch" /\ http.body.links = <<>>
Served == http.endpoint = "verify" /\ http.status = 200
\* What the request supplies as the reference: amazonPrice when it is there
\* and not empty, else productPrice.
Supplied ==
    IF http.body.amazonPrice # None /\ Len(http.body.amazonPrice) > 0
    THEN http.body.amazonPrice ELSE http.body.productPrice

\* C26: a /verify request with an empty url or productTitle, and a
\* /verify-batch request with no links, are answered 400, and while they are
\* served nothing is fetched, extracted or put to the oracle and no secret is
\* read.
C26_BadRequestsRejected ==
    (BadVerifyRequest \/ BadBatchRequest) =>
        /\ http.status = 400 /\ mode = "endpoint"
        /\ NoFrame /\ NoVerifyFrame
        /\ http.reads = 0 /\ batch = NoBatch
C26_Witness ==
    /\ BadVerifyRequest /\ http.body.url # "" /\ http.status = 400
    /\ NoFrame /\ NoVerifyFrame

\* C28: the result /verify returns for a matched product echoes as
\* amazonPrice the amazonPrice of the request when that was supplied and is
\* not empty, else its productPrice, and its verdict is the comparison of the
\* scraped price with that reference.
C28_ReferencePriceUsed ==
    (Served /\ http.reply.priceComparison # "None") =>
        /\ http.reply.amazonPrice = Supplied
        /\ LET s == parse_price(http.reply.price)
               r == parse_price(Supplied)
           IN  IF s.some /\ r.some
               THEN /\ http.reply.priceComparison = "lower" <=> Below(s, r)
                    /\ http.reply.priceComparison = "higher" <=> Below(r, s)
               ELSE http.reply.priceComparison = "unable_to_compare"
C28_Witness ==
    /\ Served /\ http.body.amazonPrice = <<>>
    /\ http.reply.amazonPrice = <<"£","1","5",".","9","9">>
    /\ http.reply.priceComparison \in {"lower", "higher"}

\* The batch being served, and the response made for it.
BatchServed == http.endpoint = "verify-batch" /\ http.status = 200
BatchRunning == http.endpoint = "verify-batch" /\ http.status = 0
RECURSIVE CountValid(_)
CountValid(rs) ==
    IF rs = <<>> THEN 0 ELSE (IF Head(rs).valid THEN 1 ELSE 0) + CountValid(Tail(rs))

\* C21: the response to a batch of N >= 1 links has N results, the i-th for
\* the i-th link, totalCount N, and validCount the number of results that
\* are valid, whichever verifications fail.
C21_BatchResultsInOrder ==
    BatchServed =>
        LET links == http.body.links
            reply == http.reply
        IN  /\ Len(reply.results) = Len(links)
            /\ \A i \in 1..Len(links) :
                 /\ reply.results[i].url = links[i].url
                 /\ reply.results[i].errorType # "validation_error"
                        <=> links[i].url # "" /\ Truthy(links[i].productTitle)
            /\ reply.totalCount = Len(links)
            /\ reply.validCount = CountValid(reply.results)
            /\ 0 <= reply.validCount /\ reply.validCount <= reply.totalCount
C21_Witness ==
    /\ BatchServed /\ http.body.links = <<NoSchemeLink, GoodLink>>
    /\ ~http.reply.results[1].valid /\ http.reply.results[2].valid
    /\ http.reply.validCount = 1

\* C22: while a batch is served at most 10 verifications are in flight,
\* however many links it has: every verification in flight holds one of the
\* semaphore's 10 permits.
C22_AtMostTenInFlight ==
    /\ Cardinality(InFlight) <= 10
    /\ BatchRunning => batch.semaphore + Cardinality(InFlight) = 10
    /\ BatchRunning => batch.semaphore >= 0
C22_Witness ==
    /\ BatchRunning /\ Len(http.body.links) > 10
    /\ InFlight = {Len(http.body.links)}
    /\ mode = "verify" /\ batch.semaphore = 9

\* C23: the verifications of a batch run concurrently: while one link is
\* being verified (fetching, sleeping before a retry) another link's
\* verification that has not begun and has a permit to take can begin.
C23_OthersNotDelayed ==
    (/\ BatchRunning /\ InFlight # {} /\ batch.semaphore > 0
     /\ \E j \in 1..Len(batch.tasks) : batch.tasks[j] = "pending")
        => ENABLED TaskStart

\* C24: while the verifications of one request make their first accesses to
\* the proxy password, the Secret Manager is read at most once for it.
C24_StoreReadOnce == http.reads <= 1

\* C24, amended: the cache is populated at most once; the store is read only
\* while the cache is empty, so until one read succeeds and never after it;
\* and every fetch that obtains the password obtains the cached one.
C24_PopulatedOnce ==
    [][/\ proxy_password_cache # "None" => proxy_password_cache' = proxy_password_cache
       /\ http'.reads > http.reads =>
            /\ proxy_password_cache = "None"
            /\ http'.reads = http.reads + 1
       /\ (fpc = "proxies" /\ fpc' = "loop") =>
            /\ proxies' # NoProxies
            /\ proxies' = proxy_password_cache'
            /\ secrets_cache'["PROXY_PASSWORD"] = proxies']_vars
C24_Witness ==
    /\ BatchRunning /\ http.reads = 1
    /\ InFlight = {2} /\ batch.results[1].valid
    /\ fpc = "loop" /\ proxies = proxy_password_cache

\* The call of find_product_info got an answer with some text from the
\* oracle; the answer has the token NOT_FOUND somewhere, in whatever case.
AnswerRead ==
    /\ Queried
    /\ pcall.b = OPENROUTER_API_KEY \/ pcall.a.store_reply.ok
           \/ "OPENROUTER_API_KEY" \in DOMAIN pcall.a.cache
    /\ pcall.a.reply.exc = "" /\ pcall.a.reply.status = 200 /\ pcall.a.reply.shape = "ok"
    /\ \E i \in 1..Len(AnswerLines) : Strip(AnswerLines[i]) # <<>>
TokenLower == <<"n","o","t","_","f","o","u","n","d">>
HasToken ==
    \E i \in 1..Len(AnswerLines) : \E j \in 1..Len(AnswerLines[i]) :
        /\ j + 8 <= Len(AnswerLines[i])
        /\ \A k \in 1..9 : AnswerLines[i][j + k - 1] \in {NOT_FOUND[k], TokenLower[k]}

\* C38: find_product_info reports "Product not found on page", and no record,
\* for every answer with the token NOT_FOUND in it, in any case and whatever
\* key: value lines the answer has; it returns a record only for answers
\* without the token.
C38_NotFoundAnywhere ==
    /\ (AnswerRead /\ HasToken) =>
         /\ pcall.ret.info = NoInfo
         /\ pcall.ret.error = Str("Product not found on page")
    /\ (Queried /\ pcall.ret.info # NoInfo) => ~HasToken
C38_Witness ==
    /\ AnswerRead /\ Len(AnswerLines) = 2 /\ HasColon(AnswerLines[1])
    /\ HasToken /\ \A i \in 1..2 : ~Contains(AnswerLines[i], NOT_FOUND)
    /\ pcall.ret.info = NoInfo

\* C37: a result for a found product has confidence medium exactly when the
\* price it reports is "not listed" in some case, and high otherwise, also
\* when the oracle's record has no price and the price reported is the
\* default "Not listed".
C37_ConfidenceFollowsPrice ==
    (mode = "verify" /\ vpc = "done" /\ result.confidence # "None") =>
        /\ result.confidence \in {"high", "medium"}
        /\ result.confidence = "medium" <=>
               Lower(result.price) = <<"n","o","t"," ","l","i","s","t","e","d">>

\* The five user agents of the pool.
Pool ==
    {"Chrome/119 Windows", "Safari/16.6 Macintosh", "Chrome/119 Linux", "Edg/120 Windows",
     "Firefox/120 Windows"}

\* C32: the user agent of every attempt is one of the pool of five and is
\* selected anew for the attempt: whatever the earlier attempts of the fetch
\* carried, the next attempt can carry any user agent of the pool.
C32_AgentPerAttempt ==
    /\ \A i \in 1..Len(sent) : sent[i] \in Pool
    /\ (fpc = "loop" /\ attempt < max_retries) =>
         \A a \in Pool : ENABLED (FetchAttempt /\ sent' = Append(sent, a))

\* C32, amended: the headers are built once per fetch: every attempt carries
\* the user agent selected from the pool of five before the first attempt,
\* so all attempts of one fetch carry the same one.
C32_AgentPerFetch ==
    /\ Len(sent) = attempt
    /\ \A i \in 1..Len(sent) : sent[i] \in Pool /\ sent[i] = headers
    /\ \A i, j \in 1..Len(sent) : sent[i] = sent[j]
    /\ fpc \in {"loop", "returned"} => headers \in Pool
C32_Witness ==
    /\ mode = "direct" /\ fpc = "returned" /\ Len(sent) = 3
    /\ sent[1] = "Firefox/120 Windows" /\ sent[3] = "Firefox/120 Windows"
    /\ log[1].exc = "" /\ log[1].status = 403

\* C36: every result of verify_single_link with an errorType (fetch_error,
\* extract_error, product_not_found, internal_error) has valid false and no
\* price, priceComparison or savings; every result without one has the
\* product fields and a priceComparison; and no result is valid with an
\* errorType or with a priceComparison of same or higher.
C36_ResultShape ==
    Finished =>
        /\ result.errorType \in {"None", "fetch_error", "extract_error", "product_not_found",
                                 "internal_error"}
        /\ result.errorType # "None" =>
             /\ ~result.valid
             /\ result.price = None /\ result.priceComparison = "None" /\ result.savings = None
        /\ result.errorType = "None" =>
             /\ result.productTitle # None /\ result.price # None /\ result.brand # None
             /\ result.description # None /\ result.availability # None
             /\ result.confidence \in {"high", "medium"}
             /\ result.priceComparison \in {"lower", "higher", "same", "unable_to_compare"}
        /\ result.valid =>
             /\ result.errorType = "None"
             /\ result.priceComparison \notin {"same", "higher"}
C36_Witness ==
    /\ Finished /\ result.errorType = "None" /\ ~result.valid
    /\ result.priceComparison = "same" /\ result.savings = None
    /\ result.price = <<"£","1","5",".","9","9">>

\* C35: in a batch, an item with an empty url or productTitle never has a
\* pipeline stage run for it and gets a result with valid false and errorType
\* validation_error, while every other item is verified and its result stands
\* at the item's position.
C35_InvalidItemsSkipped ==
    (http.endpoint = "verify-batch" /\ http.status \in {0, 200}) =>
        /\ \A i \in 1..Len(http.body.links) :
             LET link == http.body.links[i]
                 res == batch.results[i]
             IN  IF link.url = "" \/ link.productTitle = <<>>
                 THEN /\ batch.tasks[i] # "running"
                      /\ batch.tasks[i] = "done" =>
                           /\ ~res.valid /\ res.errorType = "validation_error"
                           /\ res.price = None /\ res.priceComparison = "None"
                 ELSE /\ batch.tasks[i] = "running" => (mode = "verify" /\ url = link.url)
                      /\ batch.tasks[i] = "done" =>
                           /\ res.url = link.url
                           /\ res.errorType \in {"None", "fetch_error", "extract_error",
                                                 "product_not_found", "internal_error"}
        /\ mode = "verify" => batch.tasks[batch.current] = "running"
        /\ http.status = 200 => http.reply.results = batch.results
C35_Witness ==
    /\ BatchServed /\ http.body.links = <<EmptyTitleLink, NoSchemeLink>>
    /\ http.reply.results[1].errorType = "validation_error"
    /\ http.reply.results[2].errorType = "fetch_error"
    /\ http.reply.validCount = 0

\* C33: when the Secret Manager fails during a fetch it has been asked once,
\* no request to the target url is made and nothing is slept, the
\* verification ends with a result (valid false, errorType internal_error),
\* the caches stay as they were, and a verification that starts with the
\* caches empty asks the store, so the one after a failure asks it again.
C33_CredentialFailureFatal ==
    [][/\ (fpc = "proxies" /\ fpc' = "raised") =>
            /\ UNCHANGED cacheVars
            /\ log' = <<>> /\ sent' = <<>> /\ sleeps' = <<>> /\ attempt' = 0
            /\ http.endpoint # "none" => http'.reads = http.reads + 1
       /\ (mode = "verify" /\ vpc = "fetch" /\ fpc = "raised" /\ attempt = 0 /\ vpc' # "fetch") =>
            /\ vpc' = "done"
            /\ ~result'.valid /\ result'.errorType = "internal_error" /\ result'.url = url
            /\ mode' = "verify"
            /\ UNCHANGED cacheVars
       /\ (/\ fpc = "proxies" /\ fpc' # "proxies" /\ http.endpoint # "none"
           /\ proxy_password_cache = "None" /\ "PROXY_PASSWORD" \notin DOMAIN secrets_cache) =>
            http'.reads = http.reads + 1]_vars
C33_Witness ==
    /\ BatchRunning /\ http.body.links = <<NoSchemeLink, GoodLink>>
    /\ batch.results[1].errorType = "internal_error"
    /\ InFlight = {2} /\ fpc = "loop" /\ http.reads = 2
    /\ proxy_password_cache = "pw-B"

\* Two items of the batch being served that are the same link, one the
\* target site never answers (its url has no scheme, so nothing is sent).
SameSilentLinks(i, j) ==
    /\ http.body.links[i] = http.body.links[j]
    /\ http.body.links[i].url # "" /\ ~HasScheme(http.body.links[i].url)
    /\ http.body.links[i].productTitle # <<>>
NoCredential(res) == res.errorType = "internal_error"

FetchRunning == fpc \in {"proxies", "loop"}
VerifyRunning == mode = "verify" /\ vpc \notin {"done", "raised"}
\* No call is left running: the fetch has returned or raised, the
\* verification has returned its one result, the batch is answered with a
\* result for every link.
CallsOver ==
    /\ ~FetchRunning /\ ~VerifyRunning /\ ~BatchRunning
    /\ mode = "direct" => fpc \in {"returned", "raised"}
    /\ mode = "verify" => vpc = "done" /\ result # NoResult
    /\ http.endpoint = "verify-batch" =>
           /\ http.status = 200
           /\ Len(http.reply.results) = Len(http.body.links)
           /\ \A i \in 1..Len(http.body.links) : http.reply.results[i] # NoResult

\* C31: every fetch_html call ends (it returns or raises), whatever its
\* max_retries and whatever the attempts do; every verify_single_link call
\* ends with its one result; every batch is answered with a result for
\* every link: from a state where a call is running the program comes to a
\* state where none is.
C31_CallsTerminate == (FetchRunning \/ VerifyRunning \/ BatchRunning) ~> CallsOver
\* a fetch with the largest retry count has used every attempt and returned
C31_Witness ==
    /\ mode = "direct" /\ fpc = "returned" /\ CallsOver
    /\ max_retries = MaxRetriesBound /\ attempt = max_retries

====
